---- MODULE Spec2Model ----
(***************************************************************************)
(* Model of pysachi's scoped tree-walking engine:                          *)
(*   pysachi/stack.py       Stack (the scope stack)                        *)
(*   pysachi/report.py      ASTReport / ClassReport / FunctionReport       *)
(*   pysachi/analyzer.py    DefaultAnalyzer (visit, _visit_with_context)   *)
(*   pysachi/checkers/function.py   the reference "function" checker       *)
(*   pysachi/rules/utils.py _clamp / _clamp01                              *)
(* The Python call stack of a traversal is the variable frames; report     *)
(* objects live in the heap variable reports and are named by their index. *)
(***************************************************************************)
EXTENDS Integers, Sequences, FiniteSets, TLC

\* ------------------------------------------------------------------ bounds
MaxNodes == 3          \* nodes of a walked tree, below the root of a module
MaxCheckers == 2       \* length of a checker list
MaxItems == 3          \* distinct items pushed by the bare stack operations
MaxDepth == 3          \* depth reached by the bare stack operations
MaxCallCount == 11     \* largest callCount given to responsibilities
MaxMaxCalls == 6       \* largest maxCalls given to responsibilities
MaxTargets == 3        \* targets given to analyze

\* ------------------------------------------------------- program constants
MAX_CALLS == 5
None == 0              \* Python's None, as a report reference or a list

VARIABLES
    tree,        \* the tree handed to the top-level visit
    _is_root,    \* DefaultAnalyzer._is_root
    _checkers,   \* DefaultAnalyzer._checkers
    _report,     \* DefaultAnalyzer._report (index into reports, or None)
    _stack,      \* Stack._stack (sequence of items)
    reports,     \* heap of report objects
    frames,      \* Python call stack of the traversal, innermost last
    phase,       \* "idle" | "running" | "nested" | "returned" | "raised"
    error,       \* the exception the last call raised, or "none"
    result,      \* what the last call returned
    log,         \* trace of what the dispatcher did (pushes, hooks, enters, exits, pops)
    callCount,   \* argument of responsibilities
    maxCalls,    \* argument of responsibilities
    value,       \* result of responsibilities
    targets      \* argument of analyze

vars == <<tree, _is_root, _checkers, _report, _stack, reports, frames, phase,
          error, result, log, callCount, maxCalls, value, targets>>

walkVars == <<tree, _is_root, _checkers, _report, reports, frames, phase, log>>
respVars == <<callCount, maxCalls, value>>

\* ------------------------------------------------------------------- trees
ScopeKinds == {"Module", "ClassDef", "FunctionDef"}
DispatchKinds == ScopeKinds \cup {"Call"}
Kinds == DispatchKinds \cup {"Other"}
InnerKinds == Kinds \ {"Module"}

\* ancestors-or-self of node n in the parent sequence p
RECURSIVE PathToRoot(_, _)
PathToRoot(p, n) == IF n = 0 THEN {} ELSE {n} \cup PathToRoot(p, p[n])

\* parent sequences of the ordered trees with n nodes, numbered in pre-order
RECURSIVE Shapes(_)
Shapes(n) ==
    IF n = 1 THEN {<<0>>}
    ELSE UNION {{Append(p, q) : q \in PathToRoot(p, n - 1)} : p \in Shapes(n - 1)}

KindSeqs(n) == {k \in [1..n -> Kinds] : \A i \in 2..n : k[i] \in InnerKinds}

TreesOf(n) == {[kind |-> k, parent |-> p] : k \in KindSeqs(n), p \in Shapes(n)}

\* ast.Module(body=[t]): t as the only child of a Module root
UnderModule(t) ==
    [kind |-> <<"Module">> \o t.kind,
     parent |-> <<0>> \o [i \in DOMAIN t.parent |-> t.parent[i] + 1]]

\* the nodes given to visit: any tree of up to MaxNodes nodes, and the module
\* whose body is one statement of MaxNodes nodes
Trees ==
    UNION {TreesOf(n) : n \in 1..MaxNodes}
        \cup {UnderModule(t) : t \in {s \in TreesOf(MaxNodes) : s.kind[1] # "Module"}}

EmptyTree == [kind |-> <<>>, parent |-> <<>>]
Nodes(t) == 1..Len(t.kind)

RECURSIVE ChildrenFrom(_, _, _)
ChildrenFrom(t, n, i) ==
    IF i > Len(t.kind) THEN <<>>
    ELSE (IF t.parent[i] = n THEN <<i>> ELSE <<>>) \o ChildrenFrom(t, n, i + 1)

\* ast.iter_child_nodes order: the children of n in source order
Children(t, n) == ChildrenFrom(t, n, 1)

\* node.lineno: nodes are numbered in source order
lineno(n) == n

\* ------------------------------------------------------------------- stack
depth(s) == Len(s)

\* Python list indexing s[index]: negative indices count from the end,
\* an index outside -len..len-1 raises IndexError
InRange(s, index) == index >= -Len(s) /\ index < Len(s)
Item(s, index) == IF index >= 0 THEN s[index + 1] ELSE s[Len(s) + index + 1]

_push_front(s, item) == <<item>> \o s

\* list.append(item)
_push(s, item) == Append(s, item)

pop_keeps(s) == s

\* what list.pop leaves behind
pop(s) == SubSeq(s, 1, Len(s) - 1)

peek(s) == IF depth(s) > 0 THEN s[depth(s)] ELSE None

\* Stack.at: [ok |-> FALSE] stands for the IndexError of s[index]
at(s, index) ==
    IF depth(s) > index
    THEN (IF InRange(s, index) THEN [ok |-> TRUE, val |-> Item(s, index)]
                                ELSE [ok |-> FALSE, val |-> None])
    ELSE [ok |-> TRUE, val |-> None]

parent(s) == at(s, depth(s) - 2)

\* ----------------------------------------------------------------- reports
\* _BaseReport.__init__ plus the lineno of ClassReport / FunctionReport;
\* node is the tree node the report was created for (0 for the ASTReport)
NewReport(k, n) ==
    [kind |-> k, node |-> n, lineno |-> IF k = "ASTReport" THEN None ELSE lineno(n),
     classes |-> <<>>, functions |-> <<>>, checks |-> <<>>, calls |-> 0]

ASTReport == NewReport("ASTReport", 0)
ClassReport(n) == NewReport("ClassReport", n)
FunctionReport(n) == NewReport("FunctionReport", n)

\* ------------------------------------------------------------------- rules
\* numbers are fractions num/den with den > 0
Frac(a, b) == [num |-> a, den |-> b]
Less(x, y) == x.num * y.den < y.num * x.den
NumEq(x, y) == x.num * y.den = y.num * x.den

\* Python's builtin min(x, y) / max(x, y): the first argument unless the second is
\* strictly smaller / larger
min(x, y) == IF Less(y, x) THEN y ELSE x
max(x, y) == IF Less(x, y) THEN y ELSE x

_clamp_swapped(v, a, b) == min(max(v, b), a)

_clamp(v, a, b) == max(min(v, b), a)

_clamp01(v) == _clamp(v, Frac(0, 1), Frac(1, 1))

\* rules/function.py: clamp(1 - callCount / maxCalls, 0, 1), for maxCalls > 0;
\* 1 - c/m is the fraction (m - c)/m
responsibilities(c, m) == _clamp01(Frac(m - c, m))

\* ---------------------------------------------------------------- checkers
\* A checker is named by what its hooks do:
\*   "function"  pysachi.checkers.function
\*   "ctx"       every hook returns a context with __enter__ and __exit__;
\*               any of the three calls may raise
\*   "exitonly"  every hook returns a context that has __exit__ but no __enter__
CheckerTypes == {"function", "ctx", "exitonly"}

RECURSIVE SeqsUpTo(_, _)
SeqsUpTo(S, n) ==
    IF n = 0 THEN {<<>>}
    ELSE LET shorter == SeqsUpTo(S, n - 1)
         IN shorter \cup {Append(q, x) : q \in shorter, x \in S}

\* checkers=None, the default of visit
NoneList == <<"None">>

\* lists of distinct checkers, and the default checkers=None
CheckerLists ==
    {q \in SeqsUpTo(CheckerTypes, MaxCheckers) : \A i, j \in DOMAIN q : i # j => q[i] # q[j]}
        \cup {NoneList}

\* hasattr(checker, "visit_" + kind)
HasHook(c, kind) ==
    IF c = "function" THEN kind \in {"ClassDef", "FunctionDef", "Call"}
    ELSE kind \in DispatchKinds

HasExit_needs_enter(obj) == obj \in {"Context", "FnClassContext", "FnFunctionContext"}

\* contexts: what a hook returned
HasEnter(obj) == obj \in {"Context", "FnClassContext", "FnFunctionContext"}
HasExit(obj) == obj \in {"Context", "ExitOnly", "FnClassContext", "FnFunctionContext"}
Truthy(obj) == obj # "None"

fn_visit_Call_sets(rs, s) == [rs EXCEPT ![peek(s)].calls = 1]

fn_visit_Call_all(rs, s) ==
    [r \in DOMAIN rs |->
        IF \E i \in DOMAIN s : s[i] = r THEN [rs[r] EXCEPT !.calls = @ + 1] ELSE rs[r]]

fn_visit_Call_in_functions(rs, s) ==
    IF rs[peek(s)].kind = "FunctionReport" THEN [rs EXCEPT ![peek(s)].calls = @ + 1] ELSE rs

fn_visit_Call_newest(rs, s) == [rs EXCEPT ![Len(rs)].calls = @ + 1]

\* checkers/function.py visit_Call: analyzer.peek.calls += 1
fn_visit_Call(rs, s) == [rs EXCEPT ![peek(s)].calls = @ + 1]

CheckReport(rule, val, goal, extra) ==
    [rule |-> rule, value |-> val, goal |-> goal, extra |-> extra]

fn_exit_outer(rs, s) ==
    LET report == rs[s[1]]
    IN [rs EXCEPT ![peek(s)].checks =
           Append(@, CheckReport("R1001",
                                 responsibilities(report.calls, MAX_CALLS),
                                 1,
                                 [calls |-> report.calls, max |-> MAX_CALLS]))]

\* checkers/function.py visit_FunctionDef, Context.__exit__
fn_exit(rs, s) ==
    LET report == rs[peek(s)]
    IN [rs EXCEPT ![peek(s)].checks =
           Append(@, CheckReport("R1001",
                                 responsibilities(report.calls, MAX_CALLS),
                                 1,
                                 [calls |-> report.calls, max |-> MAX_CALLS]))]

\* ------------------------------------------------------------------ frames
\* One frame per node being visited: visit -> visit_<kind> ->
\* _visit_with_context -> generic_visit.  pc is the statement the call is at:
\*   "start"     the body of visit_<kind> is about to run
\*   "hooks"     the list comprehension of line 61
\*   "enter"     the loop of line 64
\*   "children"  generic_visit, i being the child it is at
\*   "exit"      the loop of line 68
\*   "leave"     self.pop() of a scope node
\* ctxs is the list built at line 61.
NewFrame(n) == [node |-> n, pc |-> "start", i |-> 1, ctxs |-> <<>>]

Top == frames[Len(frames)]
KindOf(n) == tree.kind[n]
SetTop(f) == [frames EXCEPT ![Len(frames)] = f]
Event(e, c, n) == [ev |-> e, c |-> c, n |-> n]

\* the loop of line 64 / line 68 has something to call
Enters(ctxs) == \E i \in DOMAIN ctxs : Truthy(ctxs[i].obj) /\ HasEnter(ctxs[i].obj)
Exits(ctxs) == \E i \in DOMAIN ctxs : Truthy(ctxs[i].obj) /\ HasExit(ctxs[i].obj)
Hooks(k) == _checkers = NoneList \/ \E i \in DOMAIN _checkers : HasHook(_checkers[i], k)

\* the caller's generic_visit goes on with the next child
ReturnTo(rest) == IF rest = <<>> THEN rest ELSE [rest EXCEPT ![Len(rest)].i = @ + 1]

\* Run the call stack fr on to the next statement that does something: loops
\* with nothing to call are passed, generic_visit calls visit on the next
\* child, visit_Call and the fallthrough of a finished node return.
RECURSIVE Settle(_)
Settle(fr) ==
    IF fr = <<>> THEN fr
    ELSE LET f == fr[Len(fr)]
             k == KindOf(f.node)
             kids == Children(tree, f.node)
             set(g) == [fr EXCEPT ![Len(fr)] = g]
         IN CASE f.pc = "hooks" /\ ~Hooks(k) ->
                    Settle(set([f EXCEPT !.pc = "enter"]))
              [] f.pc = "enter" /\ ~Enters(f.ctxs) ->
                    Settle(set([f EXCEPT !.pc = "children", !.i = 1]))
              [] f.pc = "children" /\ f.i <= Len(kids) ->
                    Append(fr, NewFrame(kids[f.i]))
              [] f.pc = "children" /\ f.i > Len(kids) ->
                    Settle(set([f EXCEPT !.pc = IF k \in DispatchKinds THEN "exit" ELSE "leave"]))
              [] f.pc = "exit" /\ ~Exits(f.ctxs) ->
                    Settle(set([f EXCEPT !.pc = "leave"]))
              [] f.pc = "leave" /\ k \notin ScopeKinds ->
                    Settle(ReturnTo(SubSeq(fr, 1, Len(fr) - 1)))
              [] OTHER -> fr

Raise_caught(e) ==
    /\ frames' = Settle(SetTop([Top EXCEPT !.pc = "leave"]))
    /\ phase' = phase
    /\ error' = e

\* an exception unwinds the whole traversal: nothing catches it
Raise(e) ==
    /\ frames' = <<>>
    /\ phase' = "raised"
    /\ error' = e

\* a call of visit is under way: "running" in the branch taken when _is_root,
\* "nested" in the other branch
Running == phase \in {"running", "nested"} /\ frames # <<>>
At(pc, kinds) == Running /\ Top.pc = pc /\ KindOf(Top.node) \in kinds

\* ---------------------------------------------------------------- analyzer
InitAnalyzer ==
    /\ tree = EmptyTree
    /\ _is_root = TRUE
    /\ _checkers = NoneList
    /\ _report = None
    /\ _stack = <<>>
    /\ reports = <<>>
    /\ frames = <<>>
    /\ phase = "idle"
    /\ error = "none"
    /\ result = None
    /\ log = <<>>

Init ==
    /\ InitAnalyzer
    /\ callCount = 0
    /\ maxCalls = 1
    /\ value = Frac(1, 1)
    /\ targets = <<>>

\* DefaultAnalyzer.visit, the branch taken when _is_root, up to super().visit
visit(t, cs) ==
    /\ _is_root' = FALSE
    /\ _checkers' = cs
    /\ reports' = Append(reports, ASTReport)
    /\ _report' = Len(reports) + 1
    /\ tree' = t
    /\ frames' = <<NewFrame(1)>>
    /\ phase' = "running"
    /\ error' = "none"
    /\ result' = None
    /\ log' = <<>>
    /\ UNCHANGED <<_stack, respVars, targets>>

\* a top-level call of visit on an idle analyzer
walk ==
    /\ phase = "idle"
    /\ _is_root
    /\ \E t \in Trees, cs \in CheckerLists : visit(t, cs)

visit_return_busy ==
    /\ phase = "running"
    /\ frames = <<>>
    /\ result' = _report
    /\ phase' = "returned"
    /\ UNCHANGED <<tree, _is_root, _checkers, _report, _stack, reports, frames, error, log,
                   respVars, targets>>

\* DefaultAnalyzer.visit after super().visit returned
visit_return ==
    /\ phase = "running"
    /\ frames = <<>>
    /\ _is_root' = TRUE
    /\ result' = _report
    /\ phase' = "returned"
    /\ UNCHANGED <<tree, _checkers, _report, _stack, reports, frames, error, log, respVars, targets>>

visit_Module_no_push ==
    /\ At("start", {"Module"})
    /\ log' = Append(log, Event("visit", 0, Top.node))
    /\ frames' = Settle(SetTop([Top EXCEPT !.pc = "hooks"]))
    /\ UNCHANGED <<tree, _is_root, _checkers, _report, _stack, reports, phase, error, result,
                   respVars, targets>>

\* visit_Module up to the call of _visit_with_context
visit_Module ==
    /\ At("start", {"Module"})
    /\ _stack' = _push(_stack, _report)
    /\ log' = log \o <<Event("visit", 0, Top.node), Event("push", 0, Top.node)>>
    /\ frames' = Settle(SetTop([Top EXCEPT !.pc = "hooks"]))
    /\ UNCHANGED <<tree, _is_root, _checkers, _report, reports, phase, error, result, respVars, targets>>

append_front(list, item) == <<item>> \o list

append_twice(list, item) == Append(Append(list, item), item)

\* list.append(item)
append(list, item) == Append(list, item)

OpenScope_push_first(report, field) ==
    LET id == Len(reports) + 1
        created == Append(reports, report)
    IN /\ reports' = IF field = "classes"
                     THEN [created EXCEPT ![id].classes = append(@, id)]
                     ELSE [created EXCEPT ![id].functions = append(@, id)]
       /\ _stack' = _push(_stack, id)
       /\ log' = log \o <<Event("visit", 0, Top.node), Event("push", 0, Top.node)>>
       /\ frames' = Settle(SetTop([Top EXCEPT !.pc = "hooks"]))
       /\ UNCHANGED <<phase, error>>

\* visit_ClassDef / visit_FunctionDef up to the call of _visit_with_context;
\* self.peek.classes raises AttributeError when peek is None
OpenScope(report, field) ==
    LET id == Len(reports) + 1
        created == Append(reports, report)
        p == peek(_stack)
    IN IF p = None
       THEN /\ Raise("AttributeError")
            /\ reports' = created
            /\ log' = Append(log, Event("visit", 0, Top.node))
            /\ UNCHANGED _stack
       ELSE /\ reports' = IF field = "classes"
                          THEN [created EXCEPT ![p].classes = append(@, id)]
                          ELSE [created EXCEPT ![p].functions = append(@, id)]
            /\ _stack' = _push(_stack, id)
            /\ log' = log \o <<Event("visit", 0, Top.node), Event("push", 0, Top.node)>>
            /\ frames' = Settle(SetTop([Top EXCEPT !.pc = "hooks"]))
            /\ UNCHANGED <<phase, error>>

visit_ClassDef ==
    /\ At("start", {"ClassDef"})
    /\ OpenScope(ClassReport(Top.node), "classes")
    /\ UNCHANGED <<tree, _is_root, _checkers, _report, result, respVars, targets>>

visit_FunctionDef ==
    /\ At("start", {"FunctionDef"})
    /\ OpenScope(FunctionReport(Top.node), "functions")
    /\ UNCHANGED <<tree, _is_root, _checkers, _report, result, respVars, targets>>

visit_Call ==
    /\ At("start", {"Call"})
    /\ log' = Append(log, Event("visit", 0, Top.node))
    /\ frames' = Settle(SetTop([Top EXCEPT !.pc = "hooks"]))
    /\ UNCHANGED <<tree, _is_root, _checkers, _report, _stack, reports, phase, error,
                   result, respVars, targets>>

\* NodeVisitor.visit of a node without a visit_<kind> method
generic_visit ==
    /\ At("start", {"Other"})
    /\ log' = Append(log, Event("visit", 0, Top.node))
    /\ frames' = Settle(SetTop([Top EXCEPT !.pc = "children", !.i = 1]))
    /\ UNCHANGED <<tree, _is_root, _checkers, _report, _stack, reports, phase, error,
                   result, respVars, targets>>

\* what the hook of checker c returns for a node of kind k
HookResult(c, k) ==
    CASE c = "ctx" -> "Context"
      [] c = "exitonly" -> "ExitOnly"
      [] c = "function" /\ k = "ClassDef" -> "FnClassContext"
      [] c = "function" /\ k = "FunctionDef" -> "FnFunctionContext"
      [] OTHER -> "None"

\* the reports, ctxs and calls made once the hooks of checkers 1..i returned
RECURSIVE HooksDone(_, _)
HooksDone(f, i) ==
    IF i = 0 THEN [reports |-> reports, ctxs |-> <<>>, log |-> log]
    ELSE LET prev == HooksDone(f, i - 1)
             c == _checkers[i]
             k == KindOf(f.node)
         IN IF ~HasHook(c, k) THEN prev
            ELSE [reports |-> IF c = "function" /\ k = "Call"
                              THEN fn_visit_Call(prev.reports, _stack)
                              ELSE prev.reports,
                  ctxs |-> Append(prev.ctxs, [c |-> i, obj |-> HookResult(c, k)]),
                  log |-> Append(prev.log, Event("hook", i, f.node))]

\* the hook of checker i raises: analyzer.peek.calls with peek None does,
\* the code of a "ctx" checker may
HookFails(f, i) == _checkers[i] = "function" /\ KindOf(f.node) = "Call" /\ peek(_stack) = None
HookMayFail(f, i) == HasHook(_checkers[i], KindOf(f.node)) /\ _checkers[i] = "ctx"

\* _visit_with_context line 61-63: the hooks of all checkers, in order
call_hooks ==
    /\ At("hooks", DispatchKinds)
    /\ LET f == Top
           n == Len(_checkers)
       IN IF _checkers = NoneList
          THEN Raise("TypeError") /\ UNCHANGED <<reports, log>>
          ELSE \/ \E i \in 1..n :
                    /\ HookFails(f, i) \/ HookMayFail(f, i)
                    /\ \A j \in 1..(i - 1) : ~HookFails(f, j)
                    /\ reports' = HooksDone(f, i - 1).reports
                    /\ log' = Append(HooksDone(f, i - 1).log, Event("hook", i, f.node))
                    /\ Raise(IF HookFails(f, i) THEN "AttributeError" ELSE "CheckerError")
               \/ /\ \A j \in 1..n : ~HookFails(f, j)
                  /\ reports' = HooksDone(f, n).reports
                  /\ log' = HooksDone(f, n).log
                  /\ frames' = Settle(SetTop([f EXCEPT !.pc = "enter",
                                                       !.ctxs = HooksDone(f, n).ctxs]))
                  /\ UNCHANGED <<phase, error>>
    /\ UNCHANGED <<tree, _is_root, _checkers, _report, _stack, result, respVars, targets>>

\* the calls made once __enter__ of contexts 1..i returned
RECURSIVE EntersDone(_, _)
EntersDone(f, i) ==
    IF i = 0 THEN log
    ELSE IF Truthy(f.ctxs[i].obj) /\ HasEnter(f.ctxs[i].obj)
         THEN Append(EntersDone(f, i - 1), Event("enter", f.ctxs[i].c, f.node))
         ELSE EntersDone(f, i - 1)

\* _visit_with_context line 64-66: __enter__ of all contexts, in order
enter_ctxs ==
    /\ At("enter", DispatchKinds)
    /\ LET f == Top
           n == Len(f.ctxs)
       IN \/ \E i \in 1..n :
               /\ f.ctxs[i].obj = "Context"
               /\ log' = Append(EntersDone(f, i - 1), Event("enter", f.ctxs[i].c, f.node))
               /\ Raise("CheckerError")
          \/ /\ log' = EntersDone(f, n)
             /\ frames' = Settle(SetTop([f EXCEPT !.pc = "children", !.i = 1]))
             /\ UNCHANGED <<phase, error>>
    /\ UNCHANGED <<tree, _is_root, _checkers, _report, _stack, reports, result, respVars, targets>>

ExitCtxAt_reversed(ctxs, i) == ctxs[Len(ctxs) - i + 1]

\* the context whose __exit__ the i-th round of the loop at line 68 calls
ExitCtxAt(ctxs, i) == ctxs[i]

\* the reports and calls made once i rounds of the loop at line 68 are done
RECURSIVE ExitsDone(_, _)
ExitsDone(f, i) ==
    IF i = 0 THEN [reports |-> reports, log |-> log]
    ELSE LET prev == ExitsDone(f, i - 1)
             ctx == ExitCtxAt(f.ctxs, i)
         IN IF Truthy(ctx.obj) /\ HasExit(ctx.obj)
            THEN [reports |-> IF ctx.obj = "FnFunctionContext"
                              THEN fn_exit(prev.reports, _stack)
                              ELSE prev.reports,
                  log |-> Append(prev.log, Event("exit", ctx.c, f.node))]
            ELSE prev

\* __exit__ of round i raises: analyzer.peek.checks with peek None does,
\* the code of a "ctx" checker may
ExitFails(f, i) == ExitCtxAt(f.ctxs, i).obj = "FnFunctionContext" /\ peek(_stack) = None
ExitMayFail(f, i) == ExitCtxAt(f.ctxs, i).obj = "Context"

\* _visit_with_context line 68-70: __exit__ of all contexts, in order
exit_ctxs ==
    /\ At("exit", DispatchKinds)
    /\ LET f == Top
           n == Len(f.ctxs)
       IN \/ \E i \in 1..n :
               /\ ExitFails(f, i) \/ ExitMayFail(f, i)
               /\ \A j \in 1..(i - 1) : ~ExitFails(f, j)
               /\ reports' = ExitsDone(f, i - 1).reports
               /\ log' = Append(ExitsDone(f, i - 1).log,
                                Event("exit", ExitCtxAt(f.ctxs, i).c, f.node))
               /\ Raise(IF ExitFails(f, i) THEN "AttributeError" ELSE "CheckerError")
          \/ /\ \A j \in 1..n : ~ExitFails(f, j)
             /\ reports' = ExitsDone(f, n).reports
             /\ log' = ExitsDone(f, n).log
             /\ frames' = Settle(SetTop([f EXCEPT !.pc = "leave"]))
             /\ UNCHANGED <<phase, error>>
    /\ UNCHANGED <<tree, _is_root, _checkers, _report, _stack, result, respVars, targets>>

\* self.pop() at the end of visit_Module / visit_ClassDef / visit_FunctionDef
scope_pop ==
    /\ At("leave", ScopeKinds)
    /\ IF depth(_stack) = 0
       THEN Raise("IndexError") /\ UNCHANGED <<_stack, log>>
       ELSE /\ _stack' = pop(_stack)
            /\ log' = Append(log, Event("pop", 0, Top.node))
            /\ frames' = Settle(ReturnTo(SubSeq(frames, 1, Len(frames) - 1)))
            /\ UNCHANGED <<phase, error>>
    /\ UNCHANGED <<tree, _is_root, _checkers, _report, reports, result, respVars, targets>>

Next ==
    \/ walk
    \/ visit_return
    \/ visit_Module
    \/ visit_ClassDef
    \/ visit_FunctionDef
    \/ visit_Call
    \/ generic_visit
    \/ call_hooks
    \/ enter_ctxs
    \/ exit_ctxs
    \/ scope_pop

Spec == Init /\ [][Next]_vars

\* ------------------------------------------- a further call on the instance
\* what ast.parse returns: trees whose root is a Module
Modules == {t \in UNION {TreesOf(n) : n \in 1..MaxNodes} : t.kind[1] = "Module"}

\* walk(ast.parse(...)): a top-level call of visit on an idle analyzer
walk_module ==
    /\ phase = "idle"
    /\ _is_root
    /\ \E t \in Modules, cs \in CheckerLists : visit(t, cs)

visit_once_more_shared ==
    /\ log = <<>> \/ log[1].ev # "again"
    /\ IF _is_root
       THEN /\ _is_root' = FALSE
            /\ phase' = "running"
            /\ UNCHANGED <<reports, _report>>
       ELSE /\ phase' = "nested"
            /\ UNCHANGED <<_is_root, reports, _report>>
    /\ frames' = <<NewFrame(1)>>
    /\ error' = "none"
    /\ result' = None
    /\ log' = <<Event("again", 0, 0)>>
    /\ UNCHANGED <<tree, _checkers, _stack, respVars, targets>>

\* DefaultAnalyzer.visit called once more on the instance, with the same tree
\* and checkers: the branch is chosen by _is_root, and the other branch
\* ignores the checkers argument
visit_once_more ==
    /\ log = <<>> \/ log[1].ev # "again"
    /\ IF _is_root
       THEN /\ _is_root' = FALSE
            /\ reports' = Append(reports, ASTReport)
            /\ _report' = Len(reports) + 1
            /\ phase' = "running"
       ELSE /\ phase' = "nested"
            /\ UNCHANGED <<_is_root, reports, _report>>
    /\ frames' = <<NewFrame(1)>>
    /\ error' = "none"
    /\ result' = None
    /\ log' = <<Event("again", 0, 0)>>
    /\ UNCHANGED <<tree, _checkers, _stack, respVars, targets>>

\* the caller got a report and calls visit again
visit_again ==
    /\ phase = "returned"
    /\ visit_once_more

\* the caller got an exception and calls visit again
visit_after_raise ==
    /\ phase = "raised"
    /\ visit_once_more

\* DefaultAnalyzer.visit line 40: the other branch returns nothing and
\* leaves _is_root as it is
visit_nested_return ==
    /\ phase = "nested"
    /\ frames = <<>>
    /\ phase' = "returned"
    /\ result' = None
    /\ UNCHANGED <<tree, _is_root, _checkers, _report, _stack, reports, frames, error,
                   log, respVars, targets>>

NextAgain ==
    \/ walk_module
    \/ visit_return
    \/ visit_Module
    \/ visit_ClassDef
    \/ visit_FunctionDef
    \/ visit_Call
    \/ generic_visit
    \/ call_hooks
    \/ enter_ctxs
    \/ exit_ctxs
    \/ scope_pop
    \/ visit_again

SpecAgain == Init /\ [][NextAgain]_vars

NextRetry ==
    \/ NextAgain
    \/ visit_after_raise
    \/ visit_nested_return

SpecRetry == Init /\ [][NextRetry]_vars

\* ------------------------------------------------------------------ analyze
\* what load and ast.parse give for a target: a module of at most one node
Sources == {t \in TreesOf(1) \cup TreesOf(2) : t.kind[1] = "Module"}

\* report.Report(targets, reports)
Report(ts, rs) == [targets |-> ts, reports |-> rs]

\* the call DefaultAnalyzer(*args): __init__(self) takes no argument, and a
\* call with one raises TypeError
DefaultAnalyzer(args) == IF args = <<>> THEN "none" ELSE "TypeError"

\* sachi.walk(tree, checkers=cs) line 27: the exception of DefaultAnalyzer(checkers)
sachi_walk(t, cs) == DefaultAnalyzer(<<cs>>)

InitAnalyze ==
    /\ InitAnalyzer
    /\ callCount = 0
    /\ maxCalls = 1
    /\ value = Frac(1, 1)
    /\ targets \in SeqsUpTo(Sources, MaxTargets)

\* sachi.analyze(targets, load=load, checkers=cs): the list comprehension calls
\* walk for the first target, and the TypeError of line 27 ends the call; with
\* no target there is nothing to walk
analyze(cs) ==
    /\ phase = "idle"
    /\ IF targets = <<>>
       THEN /\ result' = Report(targets, <<>>)
            /\ phase' = "returned"
            /\ error' = "none"
       ELSE /\ result' = None
            /\ phase' = "raised"
            /\ error' = sachi_walk(targets[1], cs)
    /\ UNCHANGED <<tree, _is_root, _checkers, _report, _stack, reports, frames, log,
                   respVars, targets>>

NextAnalyze == \E cs \in CheckerLists : analyze(cs)

SpecAnalyze == InitAnalyze /\ [][NextAnalyze]_vars

\* ------------------------------------------- the rule as a function of its inputs
InitResp ==
    /\ InitAnalyzer
    /\ callCount \in 0..MaxCallCount
    /\ maxCalls \in 0..MaxMaxCalls
    /\ value = Frac(1, 1)
    /\ targets = <<>>

\* function.responsibilities(callCount, maxCalls); the division raises for maxCalls = 0
call_responsibilities ==
    /\ phase = "idle"
    /\ IF maxCalls = 0
       THEN /\ phase' = "raised"
            /\ error' = "ZeroDivisionError"
            /\ UNCHANGED value
       ELSE /\ phase' = "returned"
            /\ value' = responsibilities(callCount, maxCalls)
            /\ UNCHANGED error
    /\ UNCHANGED <<tree, _is_root, _checkers, _report, _stack, reports, frames,
                   result, log, callCount, maxCalls, targets>>

\* the same rule applied to one more call
call_responsibilities_again ==
    /\ phase = "returned"
    /\ callCount < MaxCallCount
    /\ callCount' = callCount + 1
    /\ value' = responsibilities(callCount + 1, maxCalls)
    /\ UNCHANGED <<tree, _is_root, _checkers, _report, _stack, reports, frames,
                   phase, error, result, log, maxCalls, targets>>

NextResp == call_responsibilities \/ call_responsibilities_again

SpecResp == InitResp /\ [][NextResp]_vars

\* ---------------------------------------------- the scope stack on its own
Items == 1..MaxItems

\* Stack._push(item)
stack_push(item) ==
    /\ depth(_stack) < MaxDepth
    /\ _stack' = _push(_stack, item)
    /\ result' = None
    /\ error' = "none"
    /\ log' = <<Event("push", 0, item)>>
    /\ UNCHANGED <<tree, _is_root, _checkers, _report, reports, frames, phase, respVars, targets>>

stack_pop_lenient ==
    /\ IF depth(_stack) = 0
       THEN /\ error' = "none"
            /\ result' = None
            /\ UNCHANGED _stack
       ELSE /\ error' = "none"
            /\ result' = _stack[Len(_stack)]
            /\ _stack' = pop(_stack)
    /\ log' = <<Event("pop", 0, 0)>>
    /\ UNCHANGED <<tree, _is_root, _checkers, _report, reports, frames, phase, respVars, targets>>

\* Stack.pop(): list.pop raises IndexError on an empty list
stack_pop ==
    /\ IF depth(_stack) = 0
       THEN /\ error' = "IndexError"
            /\ result' = None
            /\ UNCHANGED _stack
       ELSE /\ error' = "none"
            /\ result' = _stack[Len(_stack)]
            /\ _stack' = pop(_stack)
    /\ log' = <<Event("pop", 0, 0)>>
    /\ UNCHANGED <<tree, _is_root, _checkers, _report, reports, frames, phase, respVars, targets>>

\* Stack.peek
stack_peek ==
    /\ result' = peek(_stack)
    /\ error' = "none"
    /\ log' = <<Event("peek", 0, 0)>>
    /\ UNCHANGED <<tree, _is_root, _checkers, _report, _stack, reports, frames, phase, respVars, targets>>

\* Stack.at(index)
stack_at(index) ==
    /\ result' = at(_stack, index).val
    /\ error' = IF at(_stack, index).ok THEN "none" ELSE "IndexError"
    /\ log' = <<Event("at", 0, index)>>
    /\ UNCHANGED <<tree, _is_root, _checkers, _report, _stack, reports, frames, phase, respVars, targets>>

\* Stack.parent
stack_parent ==
    /\ result' = parent(_stack).val
    /\ error' = IF parent(_stack).ok THEN "none" ELSE "IndexError"
    /\ log' = <<Event("parent", 0, 0)>>
    /\ UNCHANGED <<tree, _is_root, _checkers, _report, _stack, reports, frames, phase, respVars, targets>>

NextStack ==
    \/ \E item \in Items : stack_push(item)
    \/ stack_pop
    \/ stack_peek
    \/ \E index \in (-MaxDepth - 1)..(MaxDepth + 1) : stack_at(index)
    \/ stack_parent

SpecStack == Init /\ [][NextStack]_vars

\* ------------------------------------------------------- derived notions
\* nearest strict ancestor of n that opens a scope, 0 when there is none
RECURSIVE NearestScope(_, _)
NearestScope(t, n) ==
    LET p == t.parent[n]
    IN IF p = 0 THEN 0
       ELSE IF t.kind[p] \in ScopeKinds THEN p ELSE NearestScope(t, p)

IsDescendant(t, d, a) == d # a /\ a \in PathToRoot(t.parent, d)

\* nodes of kind k whose nearest enclosing scope is sn, in source order from i on
RECURSIVE OwnNodes(_, _, _, _)
OwnNodes(t, sn, k, i) ==
    IF i > Len(t.kind) THEN <<>>
    ELSE (IF t.kind[i] = k /\ NearestScope(t, i) = sn THEN <<i>> ELSE <<>>)
         \o OwnNodes(t, sn, k, i + 1)

\* the tree node a report stands for: the Module root for the ASTReport
ScopeNodeOf(r) ==
    IF r.kind = "ASTReport" THEN (IF tree.kind[1] = "Module" THEN 1 ELSE 0) ELSE r.node

\* how many of the events s are about node n
Times(s, n) == Cardinality({i \in DOMAIN s : s[i].n = n})
CountAll(e) == Cardinality({i \in DOMAIN log : log[i].ev = e})
OnFrames(n) == \E i \in DOMAIN frames : frames[i].node = n
Registered(c) == Cardinality({i \in DOMAIN _checkers : _checkers[i] = c})
NodesOf(ids) == [i \in DOMAIN ids |-> reports[ids[i]].node]

\* ------------------------------------------------------------------ claims

\* C1: the scope stack is empty whenever no top-level visit is in progress
\* (immediately before a top-level visit and immediately after it returned),
\* and every push done for a Module, ClassDef or FunctionDef node is matched
\* by exactly one pop when the visit of that node is left.
C1_BalancedPushPop ==
    /\ _is_root => depth(_stack) = 0
    /\ phase \in {"running", "returned"} =>
         LET pushes == SelectSeq(log, LAMBDA e : e.ev = "push")
             pops == SelectSeq(log, LAMBDA e : e.ev = "pop")
             visits == SelectSeq(log, LAMBDA e : e.ev = "visit")
         IN /\ depth(_stack) = Len(pushes) - Len(pops)
            /\ \A n \in Nodes(tree) :
                 LET pushed == Times(pushes, n)
                     popped == Times(pops, n)
                 IN /\ pushed <= 1
                    /\ popped <= pushed
                    /\ ~OnFrames(n) => popped = pushed
                    /\ OnFrames(n) => popped = 0
                    /\ tree.kind[n] \in ScopeKinds /\ Times(visits, n) = 1
                          => pushed = 1

C1_Witness ==
    /\ phase = "returned"
    /\ depth(_stack) = 0
    /\ CountAll("push") >= 3
    /\ CountAll("pop") = CountAll("push")

Has(e, c, n) == \E i \in DOMAIN log : log[i] = Event(e, c, n)
Once(e, c, n) == Cardinality({i \in DOMAIN log : log[i] = Event(e, c, n)}) = 1

\* checker c returns a context with both __enter__ and __exit__ for kind k
Scoped(c, k) == HasHook(c, k) /\ HasEnter(HookResult(c, k)) /\ HasExit(HookResult(c, k))

\* the reports created by the current top-level visit
WalkReports == {r \in DOMAIN reports : r >= _report}

\* C2: for two checkers registered in the order A, B that both return a
\* scoped context for a node, A's enter runs before B's enter and both run
\* before anything is done on a descendant of the node; A's exit runs before
\* B's exit (registration order, not reversed) and both run after everything
\* done on the descendants; a walk that returns has run each of them once.
\* The order is read off the calls of a walk that is over, returned or
\* raised: the calls of a walk in progress are a prefix of those.  Nodes are
\* numbered in pre-order, so a descendant has the larger number.  No call of
\* the same kind for the same node by a later checker stands before a call,
\* no call on a descendant stands before an enter or after an exit.
C2_EnterExitOrder ==
    /\ phase # "running" =>
         \A a \in DOMAIN log : log[a].ev \in {"enter", "exit"} =>
            LET x == log[a]
                later == IF x.ev = "enter" THEN 1..(a - 1) ELSE (a + 1)..Len(log)
            IN /\ \A b \in 1..(a - 1) :
                     ~(log[b].ev = x.ev /\ log[b].n = x.n /\ x.c < log[b].c)
               /\ \A b \in later :
                     ~(x.n < log[b].n /\ IsDescendant(tree, log[b].n, x.n))
    /\ phase = "returned" =>
         \A n \in Nodes(tree), c \in DOMAIN _checkers :
            tree.kind[n] \in DispatchKinds /\ Scoped(_checkers[c], tree.kind[n])
               => Once("enter", c, n) /\ Once("exit", c, n)

C2_Witness ==
    /\ phase = "returned"
    /\ Len(_checkers) = 2
    /\ \E n \in Nodes(tree) :
         /\ Children(tree, n) # <<>>
         /\ Scoped(_checkers[1], tree.kind[n]) /\ Scoped(_checkers[2], tree.kind[n])
         /\ Has("exit", 1, n) /\ Has("exit", 2, n)
         /\ Has("visit", 0, Children(tree, n)[1])

\* C3: with the function checker registered once, when the walk has returned
\* every FunctionDef node has a FunctionReport whose calls equals the number of
\* Call nodes whose nearest enclosing Module/ClassDef/FunctionDef is that node.
C3_CallsCounted ==
    phase = "returned" /\ Registered("function") = 1 =>
        /\ \A n \in Nodes(tree) : tree.kind[n] = "FunctionDef" =>
              \E r \in WalkReports : reports[r].kind = "FunctionReport" /\ reports[r].node = n
        /\ \A r \in WalkReports : reports[r].kind = "FunctionReport" =>
              reports[r].calls = Len(OwnNodes(tree, reports[r].node, "Call", 1))

C3_Witness ==
    /\ phase = "returned"
    /\ Registered("function") = 1
    /\ \E r \in WalkReports :
         /\ reports[r].kind = "FunctionReport"
         /\ reports[r].calls = 2
         /\ \E n \in Nodes(tree) : tree.kind[n] = "Call" /\ tree.parent[n] # 0
                                   /\ tree.kind[tree.parent[n]] = "Call"

\* C4: the calls counter of a report changes only at the dispatch of a Call
\* node, only for the innermost open scope, and by one; the counters of the
\* enclosing reports on the stack stay as they are.
C4_OnlyInnermostCounts ==
    [][\A r \in DOMAIN reports :
          reports'[r].calls # reports[r].calls =>
             /\ At("hooks", {"Call"})
             /\ r = peek(_stack)
             /\ reports'[r].calls = reports[r].calls + 1]_vars

C4_Witness ==
    /\ depth(_stack) >= 3
    /\ reports[_stack[depth(_stack)]].kind = "FunctionReport"
    /\ reports[_stack[depth(_stack) - 1]].kind = "FunctionReport"
    /\ reports[_stack[depth(_stack)]].calls = 1
    /\ reports[_stack[depth(_stack) - 1]].calls = 0

\* C5: when the walk has returned, the classes and functions sequences of each
\* report hold, in source order, exactly the reports of the ClassDef and
\* FunctionDef nodes whose nearest enclosing scope is the node of that report;
\* so a class with n function definitions has n function reports.
C5_ChildReports ==
    phase = "returned" =>
        \A r \in WalkReports :
            LET rep == reports[r]
            IN /\ NodesOf(rep.classes) = OwnNodes(tree, ScopeNodeOf(rep), "ClassDef", 1)
               /\ NodesOf(rep.functions) = OwnNodes(tree, ScopeNodeOf(rep), "FunctionDef", 1)
               /\ \A i \in DOMAIN rep.classes :
                     /\ reports[rep.classes[i]].kind = "ClassReport"
                     /\ reports[rep.classes[i]].lineno = lineno(reports[rep.classes[i]].node)
               /\ \A i \in DOMAIN rep.functions :
                     /\ reports[rep.functions[i]].kind = "FunctionReport"
                     /\ reports[rep.functions[i]].lineno = lineno(reports[rep.functions[i]].node)

C5_Witness ==
    /\ phase = "returned"
    /\ \E r \in WalkReports :
         /\ reports[r].kind = "ClassReport"
         /\ Len(reports[r].functions) = 2

LastEvent == log[Len(log)]

\* C6: an error raised by a hook, an enter action or an exit action ends the
\* traversal at once: the walk is over with that error, no frame of it is left,
\* it has returned no report, and nothing is invoked or changed afterwards.
C6_ErrorPropagates ==
    /\ [](error # "none" => phase = "raised" /\ frames = <<>> /\ result = None)
    /\ [](phase = "raised" /\ log # <<>> /\ LastEvent.c # 0
            => (_checkers[LastEvent.c] = "ctx" => error = "CheckerError"))
    /\ [][phase = "raised" => UNCHANGED <<log, reports, _stack, error, result, phase>>]_vars

C6_Witness ==
    /\ phase = "raised"
    /\ error = "CheckerError"
    /\ result = None
    /\ LastEvent.ev = "exit"
    /\ CountAll("enter") >= 2
    /\ depth(_stack) >= 2

\* C7 as stated: the exit action of a context is never invoked unless the
\* enter action of that context was run before.
C7_ExitOnlyAfterEnter ==
    \A i \in DOMAIN log :
        log[i].ev = "exit" =>
            \E j \in 1..(i - 1) : log[j] = Event("enter", log[i].c, log[i].n)

\* C7 amended: a context that has an exit action but no enter action is
\* tolerated silently: its enter is skipped, its exit action is invoked once
\* after the children of the node, and no error is raised for it.
C7_ExitOnlyTolerated ==
    /\ \A c \in DOMAIN _checkers : _checkers[c] = "exitonly" =>
          \A i \in DOMAIN log : ~(log[i].ev = "enter" /\ log[i].c = c)
    /\ phase = "returned" =>
         \A n \in Nodes(tree), c \in DOMAIN _checkers :
            tree.kind[n] \in DispatchKinds /\ _checkers[c] = "exitonly"
               => /\ Once("exit", c, n)
                  /\ \A i \in DOMAIN log :
                        IsDescendant(tree, log[i].n, n)
                           => \E j \in (i + 1)..Len(log) : log[j] = Event("exit", c, n)
    /\ phase = "raised" /\ (\A c \in DOMAIN _checkers : _checkers[c] \in {"exitonly", "function"})
         => error = "AttributeError" /\ tree.kind[1] # "Module"

C7_Witness ==
    /\ phase = "returned"
    /\ \E n \in Nodes(tree), c \in DOMAIN _checkers :
         /\ _checkers[c] = "exitonly"
         /\ Children(tree, n) # <<>>
         /\ Has("exit", c, n)
         /\ ~Has("enter", c, n)

\* C8: with the function checker registered once, when the walk has returned
\* every FunctionReport carries exactly one check, rule R1001 with goal 1, whose
\* extra.calls is the final calls counter of the report and whose value is
\* responsibilities(final calls, MAX_CALLS).
C8_CheckAtExit ==
    phase = "returned" /\ Registered("function") = 1 =>
        \A r \in WalkReports : reports[r].kind = "FunctionReport" =>
            LET rep == reports[r]
            IN /\ Len(rep.checks) = 1
               /\ rep.checks[1].rule = "R1001"
               /\ rep.checks[1].goal = 1
               /\ rep.checks[1].extra.calls = rep.calls
               /\ rep.checks[1].extra.max = MAX_CALLS
               /\ NumEq(rep.checks[1].value, responsibilities(rep.calls, MAX_CALLS))

C8_Witness ==
    /\ phase = "returned"
    /\ Registered("function") = 1
    /\ \E r \in WalkReports :
         /\ reports[r].kind = "FunctionReport"
         /\ reports[r].calls = 1
         /\ Len(reports[r].checks) = 1
         /\ NumEq(reports[r].checks[1].value, Frac(4, 5))
         /\ reports[_report].calls = 1

Zero == Frac(0, 1)
One == Frac(1, 1)

\* C9: for callCount >= 0 and maxCalls > 0, responsibilities(callCount, maxCalls)
\* is 1 for callCount = 0, (maxCalls - callCount)/maxCalls up to maxCalls
\* (0.5 for (1, 2)) and 0 from maxCalls on; it lies in [0, 1] and does not
\* grow when callCount grows.
C9_Responsibilities ==
    /\ [](phase = "returned" =>
            /\ ~Less(value, Zero) /\ ~Less(One, value)
            /\ callCount = 0 => NumEq(value, One)
            /\ callCount <= maxCalls => NumEq(value, Frac(maxCalls - callCount, maxCalls))
            /\ callCount >= maxCalls => NumEq(value, Zero)
            /\ callCount = 1 /\ maxCalls = 2 => NumEq(value, Frac(1, 2)))
    /\ [][phase = "returned" /\ callCount' = callCount + 1 => ~Less(value, value')]_vars

C9_Witness ==
    /\ phase = "returned"
    /\ maxCalls = MAX_CALLS
    /\ callCount = MAX_CALLS + 1
    /\ NumEq(value, Zero)

PopEvent == <<Event("pop", 0, 0)>>

\* C10 as stated: pop() on an empty stack fails with EmptyStackError, returns
\* nothing and leaves the stack empty.
C10_EmptyStackError ==
    [][_stack = <<>> /\ log' = PopEvent
          => error' = "EmptyStackError" /\ result' = None /\ _stack' = <<>>]_vars

\* C10 amended: pop() on an empty stack fails with the IndexError of list.pop,
\* returns nothing and leaves the stack empty.
C10_IndexError ==
    [][_stack = <<>> /\ log' = PopEvent
          => error' = "IndexError" /\ result' = None /\ _stack' = <<>>]_vars

C10_Witness ==
    /\ log = PopEvent
    /\ error = "IndexError"
    /\ result = None
    /\ _stack = <<>>

PushEvent(item) == <<Event("push", 0, item)>>
PeekEvent == <<Event("peek", 0, 0)>>
AtEvent(index) == <<Event("at", 0, index)>>

\* the scopes below the innermost one, outermost first, as at(0..) shows them
Below(s, n) == [i \in 1..n |-> at(s, i - 1)]

\* C11: the scope stack is a LIFO.  A push makes the item the one peek
\* returns, adds one to depth and leaves the scopes below as they were; a pop
\* of a non-empty stack returns what peek returned, takes one from depth and
\* leaves the scopes below as they were (so depth is pushes minus pops and a
\* pop undoes the last open push); peek changes nothing and returns None
\* exactly at depth 0; at(0) is the outermost open scope; no other operation
\* changes the stack.
C11_Lifo ==
    [][/\ \A item \in Items : log' = PushEvent(item) =>
             /\ depth(_stack') = depth(_stack) + 1
             /\ peek(_stack') = item
             /\ Below(_stack', depth(_stack)) = Below(_stack, depth(_stack))
       /\ log' = PopEvent /\ depth(_stack) > 0 =>
             /\ error' = "none"
             /\ result' = peek(_stack)
             /\ depth(_stack') = depth(_stack) - 1
             /\ Below(_stack', depth(_stack')) = Below(_stack, depth(_stack'))
       /\ log' = PeekEvent =>
             /\ error' = "none"
             /\ result' = peek(_stack)
             /\ result' = None <=> depth(_stack) = 0
       /\ log' = AtEvent(0) /\ depth(_stack) > 0 =>
             /\ error' = "none"
             /\ result' = _stack[1]
       /\ log' \notin {PushEvent(item) : item \in Items} \cup {PopEvent} =>
             _stack' = _stack]_vars

C11_Witness ==
    /\ log = PopEvent
    /\ error = "none"
    /\ result \in Items
    /\ depth(_stack) >= 2
    /\ peek(_stack) # result
    /\ at(_stack, 0).val # peek(_stack)

\* the report r with everything reachable from it, object identity left out
RECURSIVE Deep(_)
Deep(r) ==
    LET rep == reports[r]
    IN [kind |-> rep.kind, lineno |-> rep.lineno, calls |-> rep.calls, checks |-> rep.checks,
        classes |-> [i \in DOMAIN rep.classes |-> Deep(rep.classes[i])],
        functions |-> [i \in DOMAIN rep.functions |-> Deep(rep.functions[i])]]

\* the call of visit under way, or over, is the second one on the instance
Again == log # <<>> /\ log[1].ev = "again"

\* C12: a second walk of the same tree with the same checkers, started after
\* the first one returned, returns a new root report that is deep-equal to the
\* report of the first walk (shape, line numbers, calls, checks), and it
\* changes no report of the first walk.
C12_SameReport ==
    /\ [](Again /\ phase = "returned" =>
            /\ result # None /\ result # 1
            /\ Deep(result) = Deep(1))
    /\ [][Again => \A r \in 1..(_report - 1) : reports'[r] = reports[r]]_vars

C12_Witness ==
    /\ Again
    /\ phase = "returned"
    /\ result > 1
    /\ Len(reports[result].functions) = 1
    /\ reports[reports[result].functions[1]].calls = 1
    /\ Len(reports[reports[result].functions[1]].checks) = 1
    /\ Deep(result) = Deep(1)

\* the root reports created by the current top-level visit
RootReports == {r \in WalkReports : reports[r].kind = "ASTReport"}

\* C13: while a top-level visit is under way the analyzer is not idle
\* (_is_root is false), so every further visit call, one per node below the
\* root, is a nested dispatch: it creates no root report, leaves the checker
\* list and the root report in place and hands no report to the caller; one
\* root report exists per top-level visit, and the analyzer is idle again,
\* with that report returned, when the top-level visit returns.
C13_NestedDispatch ==
    /\ [](phase = "running" =>
            ~_is_root /\ result = None /\ RootReports = {_report})
    /\ [](phase = "returned" =>
            _is_root /\ result = _report /\ RootReports = {_report})
    /\ [][phase = "running" /\ phase' = "running" =>
            /\ _report' = _report
            /\ _checkers' = _checkers
            /\ _is_root' = _is_root
            /\ \A r \in DOMAIN reports' : r \notin DOMAIN reports
                                            => reports'[r].kind # "ASTReport"]_vars

C13_Witness ==
    /\ phase = "returned"
    /\ _is_root
    /\ result = _report
    /\ Len(SelectSeq(log, LAMBDA e : e.ev = "visit")) >= 4
    /\ Len(reports) >= 3

\* C14 as stated: analyze(targets, load, checkers) returns a result whose
\* targets are the targets given and whose reports are as many root reports,
\* one per target in target order.
C14_OneReportPerTarget ==
    phase # "idle" =>
        /\ phase = "returned"
        /\ error = "none"
        /\ result.targets = targets
        /\ Len(result.reports) = Len(targets)
        /\ \A i \in DOMAIN result.reports : reports[result.reports[i]].kind = "ASTReport"

C14_Witness ==
    /\ phase = "raised"
    /\ error = "TypeError"
    /\ Len(targets) = 2
    /\ targets[1] # targets[2]

\* a Module tree walked with the reference checker alone
Reference == tree.kind # <<>> /\ tree.kind[1] = "Module" /\ _checkers = <<"function">>

Last(q) == IF q = <<>> THEN None ELSE q[Len(q)]

\* C16: whenever the hooks, the enter actions or the exit actions of the
\* checkers are about to run for a ClassDef or FunctionDef node, the report
\* created for that node is the innermost open scope and is the last element
\* of the classes (for a ClassDef) or functions (for a FunctionDef) sequence of
\* the scope below it; in the calls of a walk the push for the node comes
\* before every hook, enter and exit for it, and the pop after them.
C16_ScopeReadyForCheckers ==
    /\ Running /\ Top.pc \in {"hooks", "enter", "exit"}
               /\ KindOf(Top.node) \in {"ClassDef", "FunctionDef"} =>
          /\ depth(_stack) >= 2
          /\ reports[peek(_stack)].node = Top.node
          /\ reports[peek(_stack)].kind =
                (IF KindOf(Top.node) = "ClassDef" THEN "ClassReport" ELSE "FunctionReport")
          /\ peek(_stack) =
                (IF KindOf(Top.node) = "ClassDef"
                 THEN Last(reports[parent(_stack).val].classes)
                 ELSE Last(reports[parent(_stack).val].functions))
    /\ phase # "running" =>
          \A n \in {m \in Nodes(tree) : tree.kind[m] \in {"ClassDef", "FunctionDef"}} :
             LET pushes == {b \in DOMAIN log : log[b].ev = "push" /\ log[b].n = n}
                 pops   == {b \in DOMAIN log : log[b].ev = "pop" /\ log[b].n = n}
                 calls  == {a \in DOMAIN log : log[a].ev \in {"hook", "enter", "exit"}
                                                  /\ log[a].n = n}
             IN \A a \in calls : (\E b \in pushes : b < a) /\ (\A e \in pops : a < e)

C16_Witness ==
    /\ Running
    /\ Top.pc = "exit"
    /\ KindOf(Top.node) = "FunctionDef"
    /\ depth(_stack) = 3
    /\ Len(reports[parent(_stack).val].functions) = 2
    /\ peek(_stack) = Last(reports[parent(_stack).val].functions)

\* the places where report r occurs in a sequence q, named field, of report p
In(p, field, q, r) == {<<p, field, i>> : i \in {j \in DOMAIN q : q[j] = r}}

\* the places where report r occurs in a classes or functions sequence of a
\* report of the walk
Parents(r) ==
    UNION {In(p, "classes", reports[p].classes, r) \cup
           In(p, "functions", reports[p].functions, r) : p \in WalkReports}

\* the report a ClassDef or FunctionDef dispatched with no open scope had
\* created when self.peek.classes / self.peek.functions raised: no object
\* refers to it
Unreferenced(r) ==
    /\ phase = "raised"
    /\ error = "AttributeError"
    /\ r = Len(reports)
    /\ LastEvent = Event("visit", 0, reports[r].node)

\* C17: in every state of a walk the reports form a tree: each ClassReport
\* and FunctionReport of the walk occurs once, in one sequence of one report,
\* a ClassReport in a classes and a FunctionReport in a functions sequence;
\* the root report occurs in none; the stack, when not empty, starts with the
\* root report and each item above is a child of the item below it.
C17_ReportTree ==
    phase # "idle" =>
        /\ Parents(_report) = {}
        /\ \A r \in WalkReports \ {_report} :
              ~Unreferenced(r) =>
                 LET held == Parents(r)
                 IN /\ Cardinality(held) = 1
                    /\ \A o \in held :
                          /\ o[1] # r
                          /\ o[2] = (IF reports[r].kind = "ClassReport" THEN "classes"
                                                                        ELSE "functions")
        /\ depth(_stack) > 0 => _stack[1] = _report
        /\ \A i \in 1..(depth(_stack) - 1) :
              \E o \in Parents(_stack[i + 1]) : o[1] = _stack[i]

C17_Witness ==
    /\ phase = "running"
    /\ depth(_stack) = 3
    /\ Len(reports) - _report >= 3
    /\ Cardinality(Parents(_stack[3])) = 1

\* the scope of report r was left: its node was popped
Sealed(r) == reports[r].kind \in {"ClassReport", "FunctionReport"}
             /\ Has("pop", 0, reports[r].node)

\* C18: once the ClassReport or FunctionReport of a node was popped, no later
\* step of the walk changes it: its calls, checks, classes and functions stay
\* as they were when its node was left.
C18_SealedAfterPop ==
    [][\A r \in WalkReports : Sealed(r) => reports'[r] = reports[r]]_vars

C18_Witness ==
    /\ phase = "returned"
    /\ "function" \in {_checkers[i] : i \in DOMAIN _checkers}
    /\ \E r \in WalkReports :
         /\ Sealed(r)
         /\ reports[r].kind = "FunctionReport"
         /\ reports[r].calls = 0
         /\ reports[_report].calls = 1
         /\ \E k \in Nodes(tree) : tree.kind[k] = "Call" /\ k > reports[r].node

\* the sum of the calls counters of the reports in the set S
RECURSIVE SumCalls(_)
SumCalls(S) ==
    IF S = {} THEN 0
    ELSE LET r == CHOOSE x \in S : TRUE IN reports[r].calls + SumCalls(S \ {r})

CallNodes == {n \in Nodes(tree) : tree.kind[n] = "Call"}

\* C19: with the function checker registered once and a Module root, when the
\* walk has returned the calls counters of all its reports (root, class and
\* function reports) add up to the number of Call nodes of the tree: no call
\* is lost and none is counted twice.
C19_CallsAddUp ==
    phase = "returned" /\ tree.kind[1] = "Module" /\ Registered("function") = 1 =>
        SumCalls(WalkReports) = Cardinality(CallNodes)

C19_Witness ==
    /\ phase = "returned"
    /\ tree.kind[1] = "Module"
    /\ Registered("function") = 1
    /\ Cardinality(CallNodes) = 2
    /\ SumCalls(WalkReports) = 2
    /\ \E r \in WalkReports : reports[r].kind = "ClassReport" /\ reports[r].calls >= 1

\* C20 as stated: a top-level walk that fails because a checker raised leaves
\* the analyzer idle with an empty stack, and the next call of visit on the
\* instance is a top-level walk again: it creates a new root report and
\* returns it.
C20_IdleAfterFailure ==
    /\ phase = "raised" /\ error = "CheckerError" => _is_root /\ depth(_stack) = 0
    /\ phase # "nested"
    /\ Again /\ phase = "returned" => result # None /\ result = _report /\ depth(_stack) = 0

C20_Witness ==
    /\ Again
    /\ phase = "returned"
    /\ result = None
    /\ ~_is_root
    /\ _report = 1
    /\ depth(_stack) >= 2

ParentEvent == <<Event("parent", 0, 0)>>

\* C21 as stated: parent returns the scope at index depth - 2 when depth >= 2
\* and None when depth < 2, so never the innermost scope itself, and never
\* fails; at(index) returns the scope at index, counted from the outermost at
\* index 0, when 0 <= index < depth, and None for every other index, and never
\* fails.  Neither call changes the stack, so the state after the call shows
\* the stack the call read.
C21_ParentAndAt ==
    /\ log = ParentEvent =>
          /\ error = "none"
          /\ result = (IF depth(_stack) >= 2 THEN _stack[depth(_stack) - 1] ELSE None)
    /\ \A index \in (-MaxDepth - 1)..(MaxDepth + 1) :
          log = AtEvent(index) =>
             /\ error = "none"
             /\ result = (IF index >= 0 /\ index < depth(_stack) THEN _stack[index + 1]
                                                                  ELSE None)

\* parent of a stack with one open scope has returned that scope
C21_Witness ==
    /\ log = ParentEvent
    /\ depth(_stack) = 1
    /\ error = "none"
    /\ result = peek(_stack)
    /\ result # None

====
